---- MODULE Spec2Model ----
(***************************************************************************)
(* A model of the podcast generation pipeline of src/src/index.ts: the     *)
(* generate_podcast handler, generatePodcastScript, generatePodcastAudio   *)
(* and parseScriptSegments, over the episode store, the generation-request *)
(* store and the R2 blob store.                                            *)
(*                                                                         *)
(* Text is a sequence of one-character strings.  Every await of the code   *)
(* is one step of a call: the action named after the awaited operation is  *)
(* the continuation that runs when that operation settles (resolves or     *)
(* rejects) up to the next await.  A rejected store write has no effect.   *)
(***************************************************************************)
EXTENDS FiniteSets, Integers, Sequences, TLC

VARIABLES episodes, generationRequests, R2, pc, run, log,
          segPc, segPairs, segScript, segResult, segDuration,
          now, reader, reply

vars == <<episodes, generationRequests, R2, pc, run, log,
          segPc, segPairs, segScript, segResult, segDuration,
          now, reader, reply>>

mainVars == <<episodes, generationRequests, R2, pc, run, log>>

segVars == <<segPc, segPairs, segScript, segResult, segDuration>>

readVars == <<now, reader, reply>>

----------------------------------------------------------------------------
(* Bounds of the model.                                                    *)

\* concurrent generate_podcast calls
MaxCalls == 2

\* pieces one speech stream yields before it ends
MaxPieces == 1

\* pieces a segmenter input script is built of
MaxScriptPieces == 5

\* turns of a round-trip input
MaxTurns == 2

\* pieces an utterance of a round-trip input is built of
MaxTextPieces == 2

\* pieces a script whose duration is estimated is built of
MaxDurationPieces == 5

\* seconds the clock advances while episodes are created
MaxNow == 1

\* generate_podcast calls made beside the per-episode read operations
MaxReadCalls == 1

----------------------------------------------------------------------------
(* Text.                                                                   *)

Maya == <<"M", "a", "y", "a">>

Jordan == <<"J", "o", "r", "d", "a", "n">>

\* the characters String.prototype.trim removes and \s matches
IsWhiteSpace(ch) == ch \in {" ", "\t", "\n", "\r"}

\* the characters the regular expression's . does not match
IsLineTerminator(ch) == ch \in {"\n", "\r"}

RECURSIVE TrimStart(_)
TrimStart(s) ==
    IF s = <<>> THEN s
    ELSE IF IsWhiteSpace(Head(s)) THEN TrimStart(Tail(s)) ELSE s

RECURSIVE TrimEnd(_)
TrimEnd(s) ==
    IF s = <<>> THEN s
    ELSE IF IsWhiteSpace(s[Len(s)]) THEN TrimEnd(SubSeq(s, 1, Len(s) - 1)) ELSE s

Trim(s) == TrimEnd(TrimStart(s))

\* String.prototype.split with a one-character separator
RECURSIVE Split(_, _)
Split(s, sep) ==
    IF \A k \in 1..Len(s) : s[k] # sep THEN <<s>>
    ELSE LET k == CHOOSE j \in 1..Len(s) :
                      s[j] = sep /\ \A h \in 1..(j - 1) : s[h] # sep
         IN  <<SubSeq(s, 1, k - 1)>> \o Split(SubSeq(s, k + 1, Len(s)), sep)

StartsWith(s, p) == Len(s) >= Len(p) /\ SubSeq(s, 1, Len(p)) = p

RECURSIVE Concat(_)
Concat(ss) == IF ss = <<>> THEN <<>> ELSE Head(ss) \o Concat(Tail(ss))

----------------------------------------------------------------------------
(* parseScriptSegments.                                                    *)

\* the lengths k of a run of white space \s* may match at the start of rest
\* so that (.+)$ matches what follows: a non-empty remainder without a line
\* terminator
GroupStarts(rest) ==
    {k \in 0..Len(rest) :
        /\ \A h \in 1..k : IsWhiteSpace(rest[h])
        /\ k < Len(rest)
        /\ \A h \in (k + 1)..Len(rest) : ~IsLineTerminator(rest[h])}

\* the colon-splitting variant: the text is what lies between the first and
\* the second colon of the line
MatchSplitColon(line, name) ==
    IF ~StartsWith(line, name \o <<":">>) THEN <<>>
    ELSE LET parts == Split(line, ":")
         IN  IF Trim(parts[2]) = <<>> THEN <<>>
             ELSE <<[speaker |-> name, text |-> Trim(parts[2])]>>

\* line.match(/^(name):\s*(.+)$/) for one alternative of the pattern, and the
\* segment pushed on a match; \s* is greedy, so the longest run that still
\* lets (.+) match is taken
MatchName(line, name) ==
    IF ~StartsWith(line, name \o <<":">>) THEN <<>>
    ELSE LET rest == SubSeq(line, Len(name) + 2, Len(line))
             ks   == GroupStarts(rest)
         IN  IF ks = {} THEN <<>>
             ELSE LET k == CHOOSE j \in ks : \A h \in ks : h <= j
                  IN  <<[speaker |-> name,
                         text    |-> Trim(SubSeq(rest, k + 1, Len(rest)))]>>

\* /^(Maya|Jordan):\s*(.+)$/: the alternatives in order
MatchLine(line) ==
    IF MatchName(line, Maya) # <<>> THEN MatchName(line, Maya)
    ELSE MatchName(line, Jordan)

RECURSIVE MatchLines(_)
MatchLines(lines) ==
    IF lines = <<>> THEN <<>>
    ELSE MatchLine(Head(lines)) \o MatchLines(Tail(lines))

\* script.split("\n").filter(line => line.trim())
NonBlankLines(script) == SelectSeq(Split(script, "\n"), LAMBDA l : Trim(l) # <<>>)

parseScriptSegments(script) == MatchLines(NonBlankLines(script))

----------------------------------------------------------------------------
(* The stores.                                                             *)

Calls == 1..MaxCalls

\* a nullable column: NULL is the empty set, a value v is {v}
Null == {}

Some(v) == {v}

\* db.insert(schema.episodes).values({..., script: "", status: "generating"});
\* createdAt defaults to unixepoch(), the clock in whole seconds
NewEpisode(createdAt) ==
    [script |-> <<>>, status |-> "generating",
     audioFileKey |-> Null, durationSeconds |-> Null, createdAt |-> createdAt]

\* $defaultFn(() => crypto.randomUUID()): an id no other insert draws; the
\* model names the id drawn by the insert of call c by c
NewId(c) == c

\* an UPDATE without its WHERE clause
WhereAny(rowId, episodeId) == TRUE

\* .where(eq(schema.episodes.id, episodeId))
WhereEq(rowId, episodeId) == rowId = episodeId

\* db.update(schema.episodes).set(cols).where(eq(schema.episodes.id, episodeId))
Update(rows, episodeId, cols) ==
    [e \in DOMAIN rows |->
        IF WhereEq(e, episodeId)
        THEN [f \in DOMAIN rows[e] |->
                 IF f \in DOMAIN cols THEN cols[f] ELSE rows[e][f]]
        ELSE rows[e]]

\* a completed write that leaves the audio reference out
SetCompletedNoKey(audioKey, estimatedDuration) ==
    [status |-> "completed", durationSeconds |-> Some(estimatedDuration)]

\* a completed write that leaves the duration out
SetCompletedNoDuration(audioKey, estimatedDuration) ==
    [status |-> "completed", audioFileKey |-> Some(audioKey)]

\* .set({status: "completed", audioFileKey: audioKey, durationSeconds: ...})
SetCompleted(audioKey, estimatedDuration) ==
    [status |-> "completed", audioFileKey |-> Some(audioKey),
     durationSeconds |-> Some(estimatedDuration)]

\* a failed write that also resets the script column
SetFailedClearScript == [status |-> "failed", script |-> <<>>]

\* .set({status: "failed", updatedAt: new Date()})
SetFailed == [status |-> "failed"]

\* a blob key that does not depend on the episode
AudioKeyShared(episodeId) == <<"podcasts/", 0, ".mp3">>

\* `podcasts/${episodeId}.mp3`
AudioKey(episodeId) == <<"podcasts/", episodeId, ".mp3">>

\* `/audio/${episode.id}`
AudioUrl(episodeId) == <<"/audio/", episodeId>>

\* Math.floor(script.split(" ").length / 2.5)
EstimatedDuration(script) == (2 * Len(Split(script, " "))) \div 5

\* chunks.reduce((acc, chunk) => acc + chunk.length, 0)
RECURSIVE TotalLength(_)
TotalLength(chunks) ==
    IF chunks = <<>> THEN 0 ELSE Len(Head(chunks)) + TotalLength(Tail(chunks))

\* an assembly that walks the chunks from the last to the first
RECURSIVE CombineReversed(_)
CombineReversed(chunks) ==
    IF chunks = <<>> THEN <<>>
    ELSE chunks[Len(chunks)] \o CombineReversed(SubSeq(chunks, 1, Len(chunks) - 1))

\* new Uint8Array(total), then set(chunk, offset) for each chunk in order
Combine(chunks) == Concat(chunks)

\* a push at the front of the list
PushFront(list, item) == <<item>> \o list

\* Array.prototype.push
Push(list, item) == Append(list, item)

\* aiResponse.response || "Error generating script"
ErrorScript ==
    <<"E", "r", "r", "o", "r", " ", "g", "e", "n", "e", "r", "a", "t", "i", "n", "g",
      " ", "s", "c", "r", "i", "p", "t">>

\* what env.AI.run resolves with: a missing or empty response, or a script
\* of two turns
AiResponses ==
    { <<>>,
      Maya \o <<":", " ", "h", "i", "\n">> \o Jordan \o <<":", " ", "y", "o">> }

\* an input schema that accepts every content
AnyContent(content) == TRUE

\* content: z.string().min(1)
ValidContent(content) == Len(content) >= 1

\* the contents generate_podcast is called with
Contents == {<<>>, <<"x">>}

\* limit: z.number().min(1).max(100)
LimitMin == 1

LimitMax == 100

\* offset: z.number().min(0)
OffsetMin == 0

ValidList(limit, offset) ==
    /\ limit >= LimitMin
    /\ limit <= LimitMax
    /\ offset >= OffsetMin

\* the limits and offsets list_podcasts is called with
Limits == {LimitMin - 1, LimitMin, LimitMin + 1, LimitMax, LimitMax + 1}

Offsets == {OffsetMin - 1, OffsetMin, OffsetMin + 1}

\* the calls made beside the per-episode read operations
ReadCalls == 1..MaxReadCalls

\* the ids the read operations are called with: 0 is the id of no episode
ReadIds == ReadCalls \cup {0}

----------------------------------------------------------------------------
(* One generate_podcast call.                                              *)

NoResult == [kind |-> "none", status |-> "", message |-> "", audio_url |-> Null]

\* the catch of the handler: isError, "Error generating podcast: ..."
HandlerError(message) ==
    [kind |-> "error", status |-> "", message |-> message, audio_url |-> Null]

\* the JSON the handler returns from the result of generatePodcastScript
HandlerResult(episodeId, result) ==
    [kind      |-> "result",
     status    |-> IF result.success THEN "completed" ELSE "failed",
     message   |-> IF result.success THEN "Podcast generated successfully!"
                   ELSE result.error,
     audio_url |-> IF result.success THEN Some(AudioUrl(episodeId)) ELSE Null]

NoRun ==
    [episodeId |-> 0, script |-> <<>>, segments |-> <<>>, i |-> 0,
     chunks |-> <<>>, audioChunks |-> <<>>, error |-> "", result |-> NoResult]

\* the content a call was given and what it has asked of the providers: the
\* calls of env.AI.run and whether it rejected or resolved without a
\* response, the turns textToSpeech.convert was called for and the arguments
\* of each of those calls, the turn whose call or stream failed, the turns
\* whose call is in flight, whether the total size at assembly was zero
\* (totalSize === 0), and the calls of env.R2.put
NoLog == [content |-> Null, aiCalls |-> 0, aiFailed |-> FALSE, ttsCalls |-> <<>>,
          ttsArgs |-> <<>>, ttsFailed |-> 0, inflight |-> {}, zeroSize |-> Null,
          putCalls |-> 0]

MainInit ==
    /\ episodes = <<>>
    /\ generationRequests = {}
    /\ R2 = <<>>
    /\ pc = [c \in Calls |-> "insertEpisode"]
    /\ run = [c \in Calls |-> NoRun]
    /\ log = [c \in Calls |-> NoLog]

\* no read is in flight, no reply is waiting for its client
NoReader == [pc |-> "idle", episodeId |-> 0, key |-> Null]

NoReply ==
    [op |-> "none", episodeId |-> 0, limit |-> 0, offset |-> 0,
     isError |-> FALSE, status |-> 0, text |-> <<>>, audio |-> Null,
     result |-> <<>>]

ReadIdle ==
    /\ now = 0
    /\ reader = NoReader
    /\ reply = NoReply

SegIdle ==
    /\ segPc = "idle"
    /\ segPairs = <<>>
    /\ segScript = <<>>
    /\ segResult = <<>>
    /\ segDuration = Null

Init == MainInit /\ SegIdle /\ ReadIdle

\* the handler returns
Return(c, r, result) ==
    /\ pc' = [pc EXCEPT ![c] = "done"]
    /\ run' = [run EXCEPT ![c] = [NoRun EXCEPT !.episodeId = r.episodeId,
                                             !.result = result]]

\* a throw inside the try of generatePodcastAudio: its catch starts the
\* status = failed write; the block's segments, i, chunks and audioChunks
\* are out of scope
ThrowInAudio(c, r, message) ==
    /\ pc' = [pc EXCEPT ![c] = "updateFailedAudio"]
    /\ run' = [run EXCEPT ![c] = [NoRun EXCEPT !.episodeId = r.episodeId,
                                             !.script = r.script,
                                             !.error = message]]

\* a throw inside the try of generatePodcastScript: its catch starts the
\* status = failed write
ThrowInScript(c, r, message) ==
    /\ pc' = [pc EXCEPT ![c] = "updateFailedScript"]
    /\ run' = [run EXCEPT ![c] = [NoRun EXCEPT !.episodeId = r.episodeId,
                                             !.error = message]]

\* const MAYA_VOICE_ID = "EXAVITQu4vr4xnSDxMaL"
MAYA_VOICE_ID == "EXAVITQu4vr4xnSDxMaL"

\* const JORDAN_VOICE_ID = "pNInz6obpgDQGcFmaJgB"
JORDAN_VOICE_ID == "pNInz6obpgDQGcFmaJgB"

\* modelId: "eleven_multilingual_v2"
ModelId == "eleven_multilingual_v2"

\* a voice selection whose comparison never matches
VoiceIdNeverMaya(segment) == JORDAN_VOICE_ID

\* segment.speaker === "Maya" ? MAYA_VOICE_ID : JORDAN_VOICE_ID
VoiceId(segment) ==
    IF segment.speaker = Maya THEN MAYA_VOICE_ID ELSE JORDAN_VOICE_ID

\* convert(voiceId, {text: segment.text, modelId: "eleven_multilingual_v2"})
ConvertArgs(segment) ==
    [voiceId |-> VoiceId(segment), text |-> segment.text, modelId |-> ModelId]

\* eleven.textToSpeech.convert is called for segment i
CallConvert(c, r, i) ==
    /\ pc' = [pc EXCEPT ![c] = "convert"]
    /\ run' = [run EXCEPT ![c] = [r EXCEPT !.i = i, !.chunks = <<>>]]
    /\ log' = [log EXCEPT ![c].ttsCalls = Append(@, i),
                          ![c].ttsArgs = Append(@, ConvertArgs(r.segments[i])),
                          ![c].inflight = @ \cup {i}]

\* the handler is called with a content the input schema accepts, and
\* db.insert(schema.episodes) settles
InsertEpisode(c) ==
    /\ pc[c] = "insertEpisode"
    /\ \E content \in Contents :
          /\ ValidContent(content)
          /\ log' = [log EXCEPT ![c].content = Some(content)]
    /\ \/ LET id == NewId(c)
          IN  /\ episodes' = [e \in DOMAIN episodes \cup {id} |->
                                 IF e = id THEN NewEpisode(now) ELSE episodes[e]]
              /\ run' = [run EXCEPT ![c].episodeId = id]
              /\ pc' = [pc EXCEPT ![c] = "insertRequest"]
       \/ /\ Return(c, run[c], HandlerError("insert failed"))
          /\ UNCHANGED episodes
    /\ UNCHANGED <<generationRequests, R2, segVars, readVars>>

\* db.insert(schema.generationRequests) settles; generatePodcastScript is
\* called and runs to env.AI.run
InsertRequest(c) ==
    /\ pc[c] = "insertRequest"
    /\ \/ /\ generationRequests' =
                 generationRequests \cup
                     {[id |-> NewId(c), episodeId |-> run[c].episodeId]}
          /\ pc' = [pc EXCEPT ![c] = "aiRun"]
          /\ log' = [log EXCEPT ![c].aiCalls = @ + 1]
          /\ UNCHANGED run
       \/ /\ Return(c, run[c], HandlerError("insert failed"))
          /\ UNCHANGED <<generationRequests, log>>
    /\ UNCHANGED <<episodes, R2, segVars, readVars>>

\* env.AI.run settles; the script update is started
AiRun(c) ==
    /\ pc[c] = "aiRun"
    /\ \/ \E response \in AiResponses :
             /\ run' = [run EXCEPT ![c].script =
                           IF response = <<>> THEN ErrorScript ELSE response]
             /\ pc' = [pc EXCEPT ![c] = "updateScript"]
             /\ log' = [log EXCEPT ![c].aiFailed = (response = <<>>)]
       \/ /\ ThrowInScript(c, run[c], "AI error")
          /\ log' = [log EXCEPT ![c].aiFailed = TRUE]
    /\ UNCHANGED <<episodes, generationRequests, R2, segVars, readVars>>

\* the script update settles; generatePodcastAudio is called, parses the
\* script and calls the speech provider for the first segment
UpdateScript(c) ==
    /\ pc[c] = "updateScript"
    /\ \/ LET segs == parseScriptSegments(run[c].script)
              r    == [run[c] EXCEPT !.segments = segs]
          IN  /\ episodes' = Update(episodes, r.episodeId, [script |-> r.script])
              /\ IF Len(segs) = 0
                 THEN /\ ThrowInAudio(c, r, "No segments found in script")
                      /\ UNCHANGED log
                 ELSE CallConvert(c, r, 1)
       \/ /\ ThrowInScript(c, run[c], "update failed")
          /\ UNCHANGED <<episodes, log>>
    /\ UNCHANGED <<generationRequests, R2, segVars, readVars>>

\* a speech call that is made again for the same segment when it fails
ConvertRetry(c) ==
    /\ pc[c] = "convert"
    /\ \/ /\ pc' = [pc EXCEPT ![c] = "read"]
          /\ UNCHANGED <<run, log>>
       \/ CallConvert(c, run[c], run[c].i)
    /\ UNCHANGED <<episodes, generationRequests, R2, segVars, readVars>>

\* textToSpeech.convert settles; the first read of its stream is started
Convert(c) ==
    /\ pc[c] = "convert"
    /\ \/ /\ pc' = [pc EXCEPT ![c] = "read"]
          /\ UNCHANGED <<run, log>>
       \/ /\ ThrowInAudio(c, run[c], "speech failed")
          /\ log' = [log EXCEPT ![c].ttsFailed = run[c].i,
                                ![c].inflight = @ \ {run[c].i}]
    /\ UNCHANGED <<episodes, generationRequests, R2, segVars, readVars>>

\* reader.read() settles: a piece, the end of the stream, or an error.  At
\* the end the pieces are combined and pushed; after the last segment the
\* chunks are assembled and the put is started.  A byte is named by the turn
\* and the piece it came in.
Read(c) ==
    /\ pc[c] = "read"
    /\ \/ /\ Len(run[c].chunks) < MaxPieces
          /\ run' = [run EXCEPT ![c].chunks =
                        Append(@, <<<<run[c].i, Len(run[c].chunks) + 1>>>>)]
          /\ UNCHANGED <<pc, log>>
       \/ LET audioData == Combine(run[c].chunks)
              r == [run[c] EXCEPT !.audioChunks = Push(@, audioData)]
              l == [log EXCEPT ![c].inflight = @ \ {r.i}]
          IN  IF r.i < Len(r.segments)
              THEN /\ pc' = [pc EXCEPT ![c] = "convert"]
                   /\ run' = [run EXCEPT ![c] = [r EXCEPT !.i = r.i + 1, !.chunks = <<>>]]
                   /\ log' = [l EXCEPT ![c].ttsCalls = Append(@, r.i + 1),
                                       ![c].ttsArgs =
                                           Append(@, ConvertArgs(r.segments[r.i + 1])),
                                       ![c].inflight = @ \cup {r.i + 1}]
              ELSE IF TotalLength(r.audioChunks) = 0
              THEN /\ ThrowInAudio(c, r, "No audio data generated")
                   /\ log' = [l EXCEPT ![c].zeroSize = Some(TRUE)]
              ELSE /\ pc' = [pc EXCEPT ![c] = "put"]
                   /\ run' = [run EXCEPT ![c] = [r EXCEPT !.chunks = <<>>]]
                   /\ log' = [l EXCEPT ![c].zeroSize = Some(FALSE),
                                       ![c].putCalls = @ + 1]
       \/ /\ ThrowInAudio(c, run[c], "speech failed")
          /\ log' = [log EXCEPT ![c].ttsFailed = run[c].i,
                                ![c].inflight = @ \ {run[c].i}]
    /\ UNCHANGED <<episodes, generationRequests, R2, segVars, readVars>>

\* a put that is not awaited: the completed write is started while the
\* object is not stored
PutNotAwaited(c) ==
    /\ pc[c] = "put"
    /\ pc' = [pc EXCEPT ![c] = "updateCompleted"]
    /\ UNCHANGED <<run, R2>>
    /\ UNCHANGED <<episodes, generationRequests, log, segVars, readVars>>

\* env.R2.put settles; the completed write is started
Put(c) ==
    /\ pc[c] = "put"
    /\ \/ LET audioKey == AudioKey(run[c].episodeId)
          IN  /\ R2' = [k \in DOMAIN R2 \cup {audioKey} |->
                           IF k = audioKey THEN Combine(run[c].audioChunks)
                           ELSE R2[k]]
              /\ pc' = [pc EXCEPT ![c] = "updateCompleted"]
              /\ UNCHANGED run
       \/ /\ ThrowInAudio(c, run[c], "put failed")
          /\ UNCHANGED R2
    /\ UNCHANGED <<episodes, generationRequests, log, segVars, readVars>>

\* the completed write settles; on success generatePodcastAudio and
\* generatePodcastScript return and the handler returns
UpdateCompleted(c) ==
    /\ pc[c] = "updateCompleted"
    /\ \/ /\ episodes' = Update(episodes, run[c].episodeId,
                                SetCompleted(AudioKey(run[c].episodeId),
                                             EstimatedDuration(run[c].script)))
          /\ Return(c, run[c], HandlerResult(run[c].episodeId, [success |-> TRUE]))
       \/ /\ ThrowInAudio(c, run[c], "update failed")
          /\ UNCHANGED episodes
    /\ UNCHANGED <<generationRequests, R2, log, segVars, readVars>>

\* the failed write of generatePodcastAudio's catch settles.  On success it
\* returns {success: false, error}, which generatePodcastScript does not
\* read: it returns {success: true}.  On failure the error leaves
\* generatePodcastAudio and is caught by generatePodcastScript.
UpdateFailedAudio(c) ==
    /\ pc[c] = "updateFailedAudio"
    /\ \/ /\ episodes' = Update(episodes, run[c].episodeId, SetFailed)
          /\ Return(c, run[c], HandlerResult(run[c].episodeId, [success |-> TRUE]))
       \/ /\ ThrowInScript(c, run[c], "update failed")
          /\ UNCHANGED episodes
    /\ UNCHANGED <<generationRequests, R2, log, segVars, readVars>>

\* the failed write of generatePodcastScript's catch settles.  On success it
\* returns {success: false, error}; on failure the error reaches the
\* handler's catch.
UpdateFailedScript(c) ==
    /\ pc[c] = "updateFailedScript"
    /\ \/ /\ episodes' = Update(episodes, run[c].episodeId, SetFailed)
          /\ Return(c, run[c],
                    HandlerResult(run[c].episodeId,
                                  [success |-> FALSE, error |-> run[c].error]))
       \/ /\ Return(c, run[c], HandlerError("update failed"))
          /\ UNCHANGED episodes
    /\ UNCHANGED <<generationRequests, R2, log, segVars, readVars>>

\* one step of call c
Step(c) ==
    \/ InsertEpisode(c)
    \/ InsertRequest(c)
    \/ AiRun(c)
    \/ UpdateScript(c)
    \/ Convert(c)
    \/ Read(c)
    \/ Put(c)
    \/ UpdateCompleted(c)
    \/ UpdateFailedAudio(c)
    \/ UpdateFailedScript(c)

Next == \E c \in Calls : Step(c)

Spec == Init /\ [][Next]_vars

----------------------------------------------------------------------------
(* The read operations and the input schemas, beside the runs.  A client   *)
(* sends one read at a time and takes its reply before anything else       *)
(* happens; the runs start one after the other, so the episodes are        *)
(* created in the order of their ids.  SpecRead has every read operation   *)
(* beside the runs of ReadCalls; SpecList has list_podcasts and the clock  *)
(* beside the runs of Calls.                                               *)

\* "Episode not found"
EpisodeNotFound ==
    <<"E", "p", "i", "s", "o", "d", "e", " ", "n", "o", "t", " ", "f", "o",
      "u", "n", "d">>

\* "Script not yet generated"
ScriptNotYetGenerated ==
    <<"S", "c", "r", "i", "p", "t", " ", "n", "o", "t", " ", "y", "e", "t",
      " ", "g", "e", "n", "e", "r", "a", "t", "e", "d">>

\* the texts of the catch blocks and of a schema rejection: "Error ..."
ErrorText == <<"E", "r", "r", "o", "r">>

\* a text result that hands the stored script out as it is
ScriptTextStored(script) == script

\* episode.script || "Script not yet generated"
ScriptText(script) == IF script = <<>> THEN ScriptNotYetGenerated ELSE script

\* a key built from the episode id in place of the stored reference
AudioFileKeyDerived(episodeId, episode) == Some(AudioKey(episodeId))

\* episode.audioFileKey
AudioFileKey(episodeId, episode) == episode.audioFileKey

\* the summary get_podcast_status and list_podcasts return for an episode
Summary(episodeId, episode) ==
    [episode_id       |-> episodeId,
     status           |-> episode.status,
     duration_seconds |-> episode.durationSeconds,
     audio_url        |-> IF episode.audioFileKey # Null
                          THEN Some(AudioUrl(episodeId)) ELSE Null,
     created_at       |-> episode.createdAt]

\* .orderBy(desc(schema.episodes.createdAt)): the orders the database may
\* return the rows in; rows of the same createdAt come in any order
OrderByCreatedAtDesc(rows) ==
    {order \in [1..Cardinality(DOMAIN rows) -> DOMAIN rows] :
        /\ \A i, j \in DOMAIN order : i # j => order[i] # order[j]
        /\ \A i, j \in DOMAIN order :
              i < j => rows[order[i]].createdAt >= rows[order[j]].createdAt}

Min(a, b) == IF a <= b THEN a ELSE b

\* .limit(limit).offset(offset)
Page(order, limit, offset) == SubSeq(order, offset + 1, Min(offset + limit, Len(order)))

\* the reply of operation op asked about episodeId
ReplyTo(op, episodeId) == [NoReply EXCEPT !.op = op, !.episodeId = episodeId]

\* the catch of a tool handler: isError with the error text
ToolError(op, episodeId) ==
    [ReplyTo(op, episodeId) EXCEPT !.isError = TRUE, !.text = ErrorText]

\* the "Episode not found" result of a tool handler
ToolNotFound(op, episodeId) ==
    [ReplyTo(op, episodeId) EXCEPT !.isError = TRUE, !.text = EpisodeNotFound]

\* c.json({error: ...}, status)
JsonError(episodeId, status) ==
    [ReplyTo("audio", episodeId) EXCEPT !.status = status, !.text = ErrorText]

\* the clock passes to the next second
Tick ==
    /\ now < MaxNow
    /\ reply = NoReply
    /\ now' = now + 1
    /\ UNCHANGED <<mainVars, segVars, reader, reply>>

\* generate_podcast is called with a content its input schema rejects: the
\* handler is not run
RejectGenerate(c) ==
    /\ pc[c] = "insertEpisode"
    /\ \E content \in Contents :
          /\ ~ValidContent(content)
          /\ log' = [log EXCEPT ![c].content = Some(content)]
    /\ Return(c, run[c], HandlerError("invalid input"))
    /\ UNCHANGED <<episodes, generationRequests, R2, segVars, readVars>>

\* get_podcast_status: the select settles and the handler returns
GetPodcastStatus(episodeId) ==
    /\ reader.pc = "idle"
    /\ reply = NoReply
    /\ \/ reply' =
             IF episodeId \notin DOMAIN episodes
             THEN ToolNotFound("status", episodeId)
             ELSE [ReplyTo("status", episodeId) EXCEPT
                      !.result = <<Summary(episodeId, episodes[episodeId])>>]
       \/ reply' = ToolError("status", episodeId)
    /\ UNCHANGED <<mainVars, segVars, now, reader>>

\* get_podcast_script: the select settles and the handler returns
GetPodcastScript(episodeId) ==
    /\ reader.pc = "idle"
    /\ reply = NoReply
    /\ \/ reply' =
             IF episodeId \notin DOMAIN episodes
             THEN ToolNotFound("script", episodeId)
             ELSE [ReplyTo("script", episodeId) EXCEPT
                      !.text = ScriptText(episodes[episodeId].script)]
       \/ reply' = ToolError("script", episodeId)
    /\ UNCHANGED <<mainVars, segVars, now, reader>>

\* list_podcasts: the input schema rejects the call, or the select settles
\* and the handler returns
ListPodcasts(limit, offset) ==
    /\ reader.pc = "idle"
    /\ reply = NoReply
    /\ LET r == [ReplyTo("list", 0) EXCEPT !.limit = limit, !.offset = offset]
       IN  IF ~ValidList(limit, offset)
           THEN reply' = [r EXCEPT !.isError = TRUE, !.text = ErrorText]
           ELSE \/ \E order \in OrderByCreatedAtDesc(episodes) :
                      LET page == Page(order, limit, offset)
                      IN  reply' =
                            [r EXCEPT !.result =
                               [i \in DOMAIN page |->
                                   Summary(page[i], episodes[page[i]])]]
                \/ reply' = [r EXCEPT !.isError = TRUE, !.text = ErrorText]
    /\ UNCHANGED <<mainVars, segVars, now, reader>>

\* GET /audio/:episode_id: the select settles; R2.get is called when the
\* episode has an audio reference
GetAudio(episodeId) ==
    /\ reader.pc = "idle"
    /\ reply = NoReply
    /\ \/ IF \/ episodeId \notin DOMAIN episodes
             \/ AudioFileKey(episodeId, episodes[episodeId]) = Null
          THEN /\ reply' = JsonError(episodeId, 404)
               /\ UNCHANGED reader
          ELSE /\ reader' = [pc |-> "get", episodeId |-> episodeId,
                             key |-> AudioFileKey(episodeId, episodes[episodeId])]
               /\ UNCHANGED reply
       \/ /\ reply' = JsonError(episodeId, 500)
          /\ UNCHANGED reader
    /\ UNCHANGED <<mainVars, segVars, now>>

\* GET /audio/:episode_id: R2.get settles and the response is returned
GetAudioObject ==
    /\ reader.pc = "get"
    /\ reply = NoReply
    /\ \/ \E key \in reader.key :
             reply' =
               IF key \notin DOMAIN R2
               THEN JsonError(reader.episodeId, 404)
               ELSE [ReplyTo("audio", reader.episodeId) EXCEPT
                        !.status = 200, !.audio = Some(R2[key])]
       \/ reply' = JsonError(reader.episodeId, 500)
    /\ reader' = NoReader
    /\ UNCHANGED <<mainVars, segVars, now>>

\* the client takes the reply
Deliver ==
    /\ reply # NoReply
    /\ reply' = NoReply
    /\ UNCHANGED <<mainVars, segVars, now, reader>>

\* call c is made when the calls before it have returned and the client
\* holds no reply
Turn(c) ==
    /\ \A d \in 1..(c - 1) : pc[d] = "done"
    /\ reply = NoReply

ReadNext ==
    \/ \E c \in ReadCalls : Turn(c) /\ Step(c)
    \/ \E c \in ReadCalls : Turn(c) /\ RejectGenerate(c)
    \/ \E episodeId \in ReadIds :
          \/ GetPodcastStatus(episodeId)
          \/ GetPodcastScript(episodeId)
          \/ GetAudio(episodeId)
    \/ GetAudioObject
    \/ \E limit \in Limits, offset \in Offsets : ListPodcasts(limit, offset)
    \/ Deliver

SpecRead == Init /\ [][ReadNext]_vars

ListNext ==
    \/ \E c \in Calls : Turn(c) /\ Step(c)
    \/ \E limit \in Limits, offset \in Offsets : ListPodcasts(limit, offset)
    \/ Deliver
    \/ Tick

SpecList == Init /\ [][ListNext]_vars

----------------------------------------------------------------------------
(* The segmenter on its own.                                               *)

\* the pieces segmenter inputs are built of
ScriptPieces ==
    { Maya \o <<":">>, Jordan \o <<":">>, <<"B", "o", "b", ":">>, Maya,
      <<":">>, <<" ">>, <<"x">>, <<"\n">> }

PieceSeqs(pieces, n) == UNION {[1..m -> pieces] : m \in 0..n}

ScriptInputs == {Concat(ps) : ps \in PieceSeqs(ScriptPieces, MaxScriptPieces)}

SegInit ==
    /\ MainInit
    /\ ReadIdle
    /\ segPc = "script"
    /\ segPairs = <<>>
    /\ segScript \in ScriptInputs
    /\ segResult = <<>>
    /\ segDuration = Null

\* parseScriptSegments(script) is called
SegParse ==
    /\ segPc = "script"
    /\ segResult' = parseScriptSegments(segScript)
    /\ segPc' = "parsed"
    /\ UNCHANGED <<segPairs, segScript, segDuration, mainVars, readVars>>

SpecSeg == SegInit /\ [][SegParse]_vars

\* the utterances of a round-trip input: non-empty, trimmed, without a line
\* break; one of them looks like a turn itself
TextPieces == { <<"x">>, <<" ">>, <<":">> }

Texts ==
    {t \in {Concat(ps) : ps \in PieceSeqs(TextPieces, MaxTextPieces)} :
        t # <<>> /\ Trim(t) = t}
    \cup {Jordan \o <<":", " ", "x">>}

Pairs == [speaker : {Maya, Jordan}, text : Texts]

PairSeqs == UNION {[1..n -> Pairs] : n \in 0..MaxTurns}

\* one line of a synthetic script, "Persona: text"
FormatLine(pair) == pair.speaker \o <<":", " ">> \o pair.text

\* the lines joined with line feeds
RECURSIVE JoinLines(_)
JoinLines(pairs) ==
    IF pairs = <<>> THEN <<>>
    ELSE IF Len(pairs) = 1 THEN FormatLine(pairs[1])
    ELSE FormatLine(pairs[1]) \o <<"\n">> \o JoinLines(Tail(pairs))

RoundTripInit ==
    /\ MainInit
    /\ ReadIdle
    /\ segPc = "pairs"
    /\ segPairs \in PairSeqs
    /\ segScript = <<>>
    /\ segResult = <<>>
    /\ segDuration = Null

\* the synthetic script is built from the pairs
SegFormat ==
    /\ segPc = "pairs"
    /\ segScript' = JoinLines(segPairs)
    /\ segPc' = "script"
    /\ UNCHANGED <<segPairs, segResult, segDuration, mainVars, readVars>>

RoundTripNext == SegFormat \/ SegParse

SpecRoundTrip == RoundTripInit /\ [][RoundTripNext]_vars

\* the scripts the duration is estimated for: turns, words, spaces and line
\* breaks in every order
DurationPieces ==
    { Maya \o <<":", " ", "x">>, Jordan \o <<":", " ", "x">>,
      <<"x">>, <<" ">>, <<"\n">> }

DurationInputs ==
    {Concat(ps) : ps \in PieceSeqs(DurationPieces, MaxDurationPieces)}

DurationInit ==
    /\ MainInit
    /\ ReadIdle
    /\ segPc = "script"
    /\ segPairs = <<>>
    /\ segScript \in DurationInputs
    /\ segResult = <<>>
    /\ segDuration = Null

\* generatePodcastAudio has put the blob and computes the estimated duration
\* it passes to the completed write
SegEstimate ==
    /\ segPc = "script"
    /\ parseScriptSegments(segScript) # <<>>
    /\ segDuration' =
          SetCompleted(AudioKey(1), EstimatedDuration(segScript)).durationSeconds
    /\ segPc' = "estimated"
    /\ UNCHANGED <<segPairs, segScript, segResult, mainVars, readVars>>

SpecDuration == DurationInit /\ [][SegEstimate]_vars

----------------------------------------------------------------------------
(* The claims.                                                             *)

Terminal == {"completed", "failed"}

\* call c has returned to its caller after its episode row was created
Returned(c) == pc[c] = "done" /\ run[c].episodeId \in DOMAIN episodes

Row(c) == episodes[run[c].episodeId]

\* C1: when a generate_podcast call that created an episode row has returned,
\* the persisted status of that episode is completed or failed, never
\* generating, whichever stage failed.
C1_TerminalOnReturn ==
    \A c \in Calls : Returned(c) => Row(c).status \in Terminal

\* the caller is told of a failure: a result with status failed, a message
\* and no audio reference (an error result of the handler counts as well)
Surfaced(result) ==
    \/ result.kind = "error"
    \/ /\ result.kind = "result"
       /\ result.status = "failed"
       /\ result.message # ""
       /\ result.audio_url = Null

\* C2: once the episode row exists, a failure of any stage is surfaced to the
\* caller (status failed, the failure message, no audio reference), and the
\* result says completed with an audio reference only when the persisted
\* status is completed.
C2_FailureSurfaced ==
    \A c \in Calls :
        Returned(c) =>
            /\ Row(c).status # "completed" => Surfaced(run[c].result)
            /\ run[c].result.status = "completed" => Row(c).status = "completed"

\* C3: in every state, for every episode, the audio reference is set exactly
\* when the status is completed, and so is the duration.
C3_AudioIffCompleted ==
    \A e \in DOMAIN episodes :
        /\ episodes[e].audioFileKey # Null <=> episodes[e].status = "completed"
        /\ episodes[e].durationSeconds # Null <=> episodes[e].status = "completed"

\* a completed and a failed episode exist side by side
C3_Witness ==
    /\ \E e \in DOMAIN episodes :
          episodes[e].status = "completed" /\ episodes[e].durationSeconds # Null
    /\ \E e \in DOMAIN episodes :
          episodes[e].status = "failed" /\ episodes[e].script # <<>>

\* C4: an episode starts as generating, and a step changes a status only from
\* generating to completed or to failed: a terminal status never changes.
C4_StatusTransitions ==
    [][ /\ \A e \in DOMAIN episodes :
              /\ e \in DOMAIN episodes'
              /\ episodes[e].status \in Terminal =>
                     episodes'[e].status = episodes[e].status
        /\ \A e \in DOMAIN episodes' \ DOMAIN episodes :
              episodes'[e].status = "generating" ]_vars

\* one episode is completed, another failed, and both calls have returned
C4_Witness ==
    /\ \A c \in Calls : pc[c] = "done"
    /\ \E e \in DOMAIN episodes : episodes[e].status = "completed"
    /\ \E e \in DOMAIN episodes : episodes[e].status = "failed"

\* the generation requests that reference episode e
RequestsOf(e) == {q \in generationRequests : q.episodeId = e}

\* C5: the episode row and its generation request are created as one unit:
\* after a call has returned either both rows exist or neither does, every
\* episode has exactly one request, and the text-generation provider is not
\* called before both rows exist.
C5_AtomicCreation ==
    \A c \in Calls :
        /\ pc[c] = "done" =>
              /\ run[c].episodeId \in DOMAIN episodes
                     <=> RequestsOf(NewId(c)) # {}
              /\ \A e \in DOMAIN episodes : Cardinality(RequestsOf(e)) = 1
        /\ log[c].aiCalls > 0 =>
              /\ run[c].episodeId \in DOMAIN episodes
              /\ RequestsOf(run[c].episodeId) # {}

\* C6: if the speech call of turn k (or the draining of its stream) fails,
\* no speech call is made for a later turn, nothing is written to the blob
\* store under the episode's key, the audio reference and the duration stay
\* unset, and the status ends as failed.
C6_SynthesisFailureAborts ==
    \A c \in Calls :
        log[c].ttsFailed > 0 =>
            /\ \A k \in 1..Len(log[c].ttsCalls) :
                  log[c].ttsCalls[k] <= log[c].ttsFailed
            /\ AudioKey(run[c].episodeId) \notin DOMAIN R2
            /\ Row(c).audioFileKey = Null
            /\ Row(c).durationSeconds = Null
            /\ pc[c] = "done" => Row(c).status = "failed"

\* C7: the speech calls of a run are made in turn order and never overlap:
\* at most one is in flight, the call of turn i is made when the chunks of
\* the turns before it have been appended, and the chunk list is in turn
\* order (the k-th chunk holds bytes of turn k only).
C7_SequentialSynthesis ==
    \A c \in Calls :
        /\ Cardinality(log[c].inflight) <= 1
        /\ \A k \in 1..Len(log[c].ttsCalls) : log[c].ttsCalls[k] = k
        /\ \A i \in log[c].inflight :
              /\ i = Len(log[c].ttsCalls)
              /\ Len(run[c].audioChunks) = i - 1
        /\ \A k \in 1..Len(run[c].audioChunks) :
              \A b \in 1..Len(run[c].audioChunks[k]) :
                  run[c].audioChunks[k][b][1] = k

\* the call of the second turn is in flight after the first turn's stream
\* was drained into a non-empty chunk
C7_Witness ==
    \E c \in Calls :
        /\ pc[c] = "convert"
        /\ log[c].inflight = {2}
        /\ Len(run[c].audioChunks) = 1
        /\ run[c].audioChunks[1] # <<>>

\* C8: when the persisted script has no turns, no speech call is made,
\* nothing is written to the blob store, and the status is persisted as
\* failed.
C8_ZeroTurnsFails ==
    \A c \in Calls :
        (/\ Returned(c)
         /\ Row(c).script # <<>>
         /\ parseScriptSegments(Row(c).script) = <<>>)
        => /\ log[c].ttsCalls = <<>>
           /\ AudioKey(run[c].episodeId) \notin DOMAIN R2
           /\ Row(c).status = "failed"

\* the turn the claim gives a line: the line is a persona name, a colon and
\* an utterance that is not empty once trimmed
ClaimedTurn(line) ==
    LET names == {n \in {Maya, Jordan} : StartsWith(line, n \o <<":">>)}
    IN  IF names = {} THEN <<>>
        ELSE LET n == CHOOSE m \in names : TRUE
                 utterance == Trim(SubSeq(line, Len(n) + 2, Len(line)))
             IN  IF utterance = <<>> THEN <<>>
                 ELSE <<[speaker |-> n, text |-> utterance]>>

RECURSIVE ClaimedTurns(_)
ClaimedTurns(lines) ==
    IF lines = <<>> THEN <<>>
    ELSE ClaimedTurn(Head(lines)) \o ClaimedTurns(Tail(lines))

\* C9: parseScriptSegments returns, in line order, one turn for each line
\* that is Maya or Jordan, a colon and an utterance that is not empty once
\* trimmed, and drops every other line; so every returned turn has a
\* non-empty persona and a non-empty trimmed utterance.
C9_SegmenterTurns ==
    segPc = "parsed" =>
        /\ segResult = ClaimedTurns(Split(segScript, "\n"))
        /\ \A k \in 1..Len(segResult) :
              segResult[k].speaker # <<>> /\ segResult[k].text # <<>>

\* C10: a script built of the lines "Persona: text" of a sequence of pairs,
\* joined by line feeds, is parsed back into the same sequence of pairs.
C10_RoundTrip ==
    segPc = "parsed" => segResult = segPairs

\* two pairs, one with a colon and a space inside its text, were recovered
C10_Witness ==
    /\ segPc = "parsed"
    /\ Len(segPairs) = 2
    /\ segResult = segPairs
    /\ segPairs[1].text = Jordan \o <<":", " ", "x">>
    /\ segPairs[2].speaker = Jordan

\* the offset of chunk k in the artifact: the lengths of the chunks before it
OffsetOf(chunks, k) == TotalLength(SubSeq(chunks, 1, k - 1))

C12_ZeroLengthFatal ==
    \A c \in Calls :
        /\ log[c].zeroSize = Some(TRUE)
              => /\ log[c].putCalls = 0
                 /\ AudioKey(c) \notin DOMAIN R2
                 /\ Returned(c) => Row(c).status = "failed"
        /\ log[c].zeroSize = Some(FALSE)
              => log[c].putCalls = 1

\* the words of a script: the maximal runs of characters that are neither a
\* space nor a line break
WordCount(script) ==
    LET IsSeparator(ch) == ch \in {" ", "\n"}
    IN  Cardinality({i \in 1..Len(script) :
                        /\ ~IsSeparator(script[i])
                        /\ i = 1 \/ IsSeparator(script[i - 1])})

\* C13: the duration persisted for a completed episode is floor(W / 2.5) =
\* floor(2W / 5), W being the number of words of the script, whether spaces
\* or line breaks separate them.
C13_DurationFromWordCount ==
    segPc = "estimated"
        => segDuration = Some((2 * WordCount(segScript)) \div 5)

\* the row and the blob of the episode of call c, when they exist
RowOf(rows, c) == IF NewId(c) \in DOMAIN rows THEN Some(rows[NewId(c)]) ELSE Null

BlobOf(blobs, c) ==
    IF AudioKey(NewId(c)) \in DOMAIN blobs
    THEN Some(blobs[AudioKey(NewId(c))]) ELSE Null

\* C18: under every interleaving of concurrent generation runs, a step of
\* one run writes only the episode row with its own id and the blob under
\* the key derived from its own id, and distinct ids have distinct keys: the
\* row and the blob of a run that does not take the step are left as they
\* were, so each episode ends as if its run had executed alone.
C18_RunsIsolated ==
    [][\A c \in Calls :
          /\ \A d \in Calls \ {c} : AudioKey(NewId(c)) # AudioKey(NewId(d))
          /\ pc'[c] = pc[c]
                => /\ RowOf(episodes', c) = RowOf(episodes, c)
                   /\ BlobOf(R2', c) = BlobOf(R2, c)]_vars

\* two runs are in flight together and both have put their blob
C18_Witness ==
    \E c, d \in Calls :
        /\ c # d
        /\ pc[c] = "updateCompleted" /\ pc[d] = "updateCompleted"
        /\ BlobOf(R2, c) # Null /\ BlobOf(R2, d) # Null

\* C19: when script generation fails, because env.AI.run rejects or because
\* it resolves without a usable response, the pipeline stops there: no text
\* is persisted as the script, no script write, speech call or blob write is
\* attempted, and the run ends with the status persisted as failed.
C19_ScriptFailureStops ==
    \A c \in Calls :
        log[c].aiFailed
            => /\ pc[c] \in {"updateFailedScript", "done"}
               /\ Row(c).script = <<>>
               /\ log[c].ttsCalls = <<>>
               /\ log[c].putCalls = 0
               /\ Returned(c) => Row(c).status = "failed"

\* C20: once a script has been persisted for an episode, no later step
\* changes or clears the script column: every step leaves a non-empty
\* persisted script as it is, whatever fails afterwards.
C20_ScriptCheckpointSurvives ==
    [][\A e \in DOMAIN episodes :
          episodes[e].script # <<>>
              => /\ e \in DOMAIN episodes'
                 /\ episodes'[e].script = episodes[e].script]_vars

\* a run has ended failed after its script was persisted
C20_Witness ==
    \E c \in Calls :
        /\ Returned(c)
        /\ Row(c).status = "failed"
        /\ Row(c).script # <<>>
        /\ log[c].ttsCalls # <<>>

\* the episode a reply is about exists
ReplyKnown == reply.episodeId \in DOMAIN episodes

\* C14 as stated: get_podcast_script on an existing episode whose status
\* is not completed returns the placeholder "Script not yet generated",
\* and never a null, empty or throwing result.
C14_PlaceholderUnlessCompleted ==
    (/\ reply.op = "script"
     /\ ReplyKnown
     /\ episodes[reply.episodeId].status # "completed")
    => /\ ~reply.isError
       /\ reply.text = ScriptNotYetGenerated

\* C14, amended: get_podcast_script on an existing episode returns a text
\* that is never empty: when the lookup succeeds, the placeholder exactly
\* when no script is stored and the stored script otherwise, whatever the
\* status; when the lookup fails, an error text.
C14_PlaceholderIffNoScript ==
    (reply.op = "script" /\ ReplyKnown)
    => LET stored == episodes[reply.episodeId].script
       IN  /\ reply.text # <<>>
           /\ (~reply.isError /\ stored = <<>>)
                 => reply.text = ScriptNotYetGenerated
           /\ (~reply.isError /\ stored # <<>>) => reply.text = stored
           /\ reply.isError => reply.text = ErrorText

\* the script of a failed episode has been returned
C14_Witness ==
    /\ reply.op = "script"
    /\ ReplyKnown
    /\ episodes[reply.episodeId].status = "failed"
    /\ ~reply.isError
    /\ reply.text # ScriptNotYetGenerated

\* C15 as stated: GET /audio/:episode_id returns NotFound and no bytes
\* whenever the episode does not exist or its status is failed or
\* generating; bytes are returned only for a completed episode.
C15_NotFoundUnlessCompleted ==
    reply.op = "audio"
    => /\ (~ReplyKnown \/ episodes[reply.episodeId].status # "completed")
             => reply.status = 404 /\ reply.audio = Null
       /\ reply.audio # Null
             => ReplyKnown /\ episodes[reply.episodeId].status = "completed"

\* C15, amended: whenever the episode does not exist or its status is
\* failed or generating, GET /audio/:episode_id returns no bytes: its
\* response is 404, or 500 when the lookup itself fails; bytes are returned
\* only with status 200, only for a completed episode, and they are the
\* blob stored under the key of that episode.
C15_NoBytesUnlessCompleted ==
    /\ reader.pc = "get"
          => /\ reader.episodeId \in DOMAIN episodes
             /\ episodes[reader.episodeId].status = "completed"
    /\ reply.op = "audio"
          => /\ (~ReplyKnown \/ episodes[reply.episodeId].status # "completed")
                   => reply.status \in {404, 500} /\ reply.audio = Null
             /\ reply.audio # Null
                   => /\ reply.status = 200
                      /\ ReplyKnown
                      /\ episodes[reply.episodeId].status = "completed"
                      /\ reply.audio = BlobOf(R2, reply.episodeId)
             /\ reply.status = 200 => reply.audio # Null

\* 404 has been returned for an episode that is not completed although its
\* blob is in the store
C15_Witness ==
    /\ reply.op = "audio"
    /\ reply.status = 404
    /\ ReplyKnown
    /\ episodes[reply.episodeId].status # "completed"
    /\ BlobOf(R2, reply.episodeId) # Null

\* the ids of the rows, the one created last first; the runs start one
\* after the other, so the ids are in creation order
NewestFirst(rows) ==
    CHOOSE order \in [1..Cardinality(DOMAIN rows) -> DOMAIN rows] :
        \A i, j \in DOMAIN order : i < j => order[i] > order[j]

\* C16: list_podcasts(limit, offset) with limit in [1,100] and offset >= 0
\* returns the episodes ranked offset+1 .. offset+limit newest-created
\* first, min(limit, max(0, N - offset)) of them, also when several
\* episodes were created within the same second.
C16_ListNewestFirst ==
    (reply.op = "list" /\ ~reply.isError)
    => LET page == Page(NewestFirst(episodes), reply.limit, reply.offset)
       IN  /\ Len(reply.result) = Len(page)
           /\ \A i \in DOMAIN page : reply.result[i].episode_id = page[i]

\* a step that sends or answers a read operation
ReadStep == reader' # reader \/ (reply' # reply /\ reply' # NoReply)

\* a step in which generate_podcast is called with empty content
EmptyContentStep ==
    \E c \in Calls : log[c].content = Null /\ log'[c].content = Some(<<>>)

\* C17: a generate_podcast call with empty content, a list_podcasts call
\* with limit outside [1,100] or negative offset, and every
\* get_podcast_status, get_podcast_script, list_podcasts and GET /audio
\* call, for a known or an unknown id, leave every episode row, every
\* generation-request row and every blob as they were.
C17_ReadsAndRejectionsFrame ==
    [][(ReadStep \/ EmptyContentStep)
          => UNCHANGED <<episodes, generationRequests, R2>>]_vars

\* a list_podcasts call with invalid paging has been answered while rows
\* and a blob are stored
C17_Witness ==
    /\ reply.op = "list"
    /\ ~ValidList(reply.limit, reply.offset)
    /\ reply.isError
    /\ episodes # <<>>
    /\ generationRequests # {}
    /\ R2 # <<>>

\* the turns 1..n in order
TurnsUpTo(n) == [i \in 1..n |-> i]

\* C21: within one run the stages are strictly ordered: a speech call is
\* made only after env.AI.run has returned and the script is persisted;
\* the put is started (and is pending) only after the speech call and
\* stream of every turn of the script have completed; and status completed, with the audio
\* reference and the duration, is stored only after the put has succeeded.
C21_StagesOrdered ==
    \A c \in Calls :
        /\ log[c].ttsCalls # <<>>
              => /\ log[c].aiCalls = 1
                 /\ pc[c] # "aiRun"
                 /\ ~log[c].aiFailed
                 /\ Row(c).script # <<>>
        /\ log[c].putCalls > 0
              => /\ log[c].inflight = {}
                 /\ log[c].ttsFailed = 0
        /\ pc[c] = "put"
              => log[c].ttsCalls =
                    TurnsUpTo(Len(parseScriptSegments(Row(c).script)))
        /\ (NewId(c) \in DOMAIN episodes
              /\ episodes[NewId(c)].status = "completed")
              => /\ log[c].putCalls = 1
                 /\ pc[c] = "done"
                 /\ BlobOf(R2, c) # Null
                 /\ episodes[NewId(c)].audioFileKey # Null
                 /\ episodes[NewId(c)].durationSeconds # Null

\* a run of two turns has gone through every stage
C21_Witness ==
    \E c \in Calls :
        /\ Returned(c)
        /\ Row(c).status = "completed"
        /\ Len(log[c].ttsCalls) = 2
        /\ log[c].putCalls = 1

\* C22: when every awaited operation of a run has settled, so that the run
\* has returned and nothing of it is pending, its episode has a terminal
\* status; and there is no timeout: while a speech call has not returned,
\* the episode is generating and no later stage (assembly, put, status
\* write) has started.
C22_SettlesOrBlocks ==
    \A c \in Calls :
        /\ (pc[c] = "done" /\ NewId(c) \in DOMAIN episodes)
              => episodes[NewId(c)].status \in Terminal
        /\ pc[c] = "convert"
              => /\ episodes[NewId(c)].status = "generating"
                 /\ log[c].zeroSize = Null
                 /\ log[c].putCalls = 0

\* the artifacts a run over the given number of turns can assemble: for
\* each turn the pieces its stream yielded, in turn and piece order
Artifacts(turns) ==
    {Combine([k \in 1..turns |-> [j \in 1..sizes[k] |-> <<k, j>>]]) :
        sizes \in [1..turns -> 0..MaxPieces]}

\* the episode of call c is completed, holds the reference to its own key,
\* and the store holds under that key a non-empty artifact of its script
CompletedHasArtifact(c) ==
    LET episode == episodes[NewId(c)]
    IN  episode.status = "completed"
        => /\ episode.audioFileKey = Some(AudioKey(NewId(c)))
           /\ BlobOf(R2, c) # Null
           /\ BlobOf(R2, c) # Some(<<>>)
           /\ \E blob \in BlobOf(R2, c) :
                 blob \in Artifacts(Len(parseScriptSegments(episode.script)))

\* the reply to GET /audio is about a completed episode
AudioReplyCompleted ==
    /\ reply.op = "audio"
    /\ ReplyKnown
    /\ episodes[reply.episodeId].status = "completed"

\* C23 as stated: a completed episode has the audio reference
\* podcasts/<its id>.mp3 and the store holds under that key the artifact its
\* run assembled, so GET /audio on a completed episode returns those bytes
\* and never NotFound.
C23_CompletedAlwaysServed ==
    /\ \A c \in Calls : NewId(c) \in DOMAIN episodes => CompletedHasArtifact(c)
    /\ AudioReplyCompleted
          => /\ reply.status = 200
             /\ reply.audio = BlobOf(R2, reply.episodeId)

\* C23, amended: a completed episode has the audio reference
\* podcasts/<its id>.mp3 and the store holds under that key the artifact its
\* run assembled; GET /audio on a completed episode never returns NotFound:
\* it returns those bytes, or 500 when the lookup or the read of the blob
\* itself fails.
C23_CompletedNeverNotFound ==
    /\ \A c \in Calls : NewId(c) \in DOMAIN episodes => CompletedHasArtifact(c)
    /\ AudioReplyCompleted
          => /\ reply.status \in {200, 500}
             /\ reply.status = 200
                   => reply.audio = BlobOf(R2, reply.episodeId)
             /\ reply.status = 500 => reply.audio = Null

\* the bytes of a completed episode have been returned
C23_Witness ==
    /\ AudioReplyCompleted
    /\ reply.status = 200
    /\ reply.audio # Null
    /\ reply.audio = BlobOf(R2, reply.episodeId)

\* C24: after a run has returned, the store holds an object under
\* podcasts/<id>.mp3 only if episode <id> is completed with its audio
\* reference set to that key; an episode that ends failed, also when the
\* completed write failed after the put, has no stored object.
C24_NoOrphanAudio ==
    \A c \in Calls :
        (pc[c] = "done" /\ BlobOf(R2, c) # Null)
        => /\ NewId(c) \in DOMAIN episodes
           /\ episodes[NewId(c)].status = "completed"
           /\ episodes[NewId(c)].audioFileKey = Some(AudioKey(NewId(c)))

\* C25: whatever fails, one run calls env.AI.run at most once, calls
\* textToSpeech.convert at most once for each turn, and calls env.R2.put at
\* most once.
C25_NoRetries ==
    \A c \in Calls :
        /\ log[c].aiCalls <= 1
        /\ \A i, j \in DOMAIN log[c].ttsCalls :
              i # j => log[c].ttsCalls[i] # log[c].ttsCalls[j]
        /\ log[c].putCalls <= 1

\* a run has returned after the speech call of its second turn failed
C25_Witness ==
    \E c \in Calls :
        /\ pc[c] = "done"
        /\ log[c].ttsFailed = 2
        /\ log[c].ttsCalls = <<1, 2>>
        /\ log[c].aiCalls = 1
        /\ log[c].putCalls = 0

\* C26: every speech call made for a turn passes the Maya voice exactly when
\* the persona of the turn is Maya and the Jordan voice exactly when it is
\* Jordan; the two voices are distinct, the model identifier is the same on
\* every call, and the text passed is the utterance of the turn.  The
\* arguments are compared with the turn of the persisted script while the
\* call is pending, which every call is when it has just been made.
C26_VoiceMapping ==
    /\ MAYA_VOICE_ID # JORDAN_VOICE_ID
    /\ \A c \in Calls :
          /\ Len(log[c].ttsArgs) = Len(log[c].ttsCalls)
          /\ \A k \in DOMAIN log[c].ttsArgs :
                log[c].ttsArgs[k].modelId = "eleven_multilingual_v2"
          /\ pc[c] = "convert"
                => LET k    == Len(log[c].ttsArgs)
                       turn == parseScriptSegments(Row(c).script)[log[c].ttsCalls[k]]
                       args == log[c].ttsArgs[k]
                   IN  /\ args.voiceId = MAYA_VOICE_ID <=> turn.speaker = Maya
                       /\ args.voiceId = JORDAN_VOICE_ID <=> turn.speaker = Jordan
                       /\ args.text = turn.text

\* a run has called the speech provider with each of the two voices
C26_Witness ==
    \E c \in Calls :
        /\ Len(log[c].ttsArgs) = 2
        /\ log[c].ttsArgs[1].voiceId = MAYA_VOICE_ID
        /\ log[c].ttsArgs[2].voiceId = JORDAN_VOICE_ID

====
